---- MODULE Spec2Model ----
(***************************************************************************)
(* pxx: proxy connections while executing commands in parallel.            *)
(*                                                                         *)
(* The model follows src/src/main.rs (orchestrator: future, wait, main),   *)
(* src/src/command.rs (spawn, exec = the Process Runner, broadcast = the   *)
(* Stdin Broadcaster) and src/src/proxy.rs (proxy = the Proxy Task).       *)
(*                                                                         *)
(* The runtime is tokio's current_thread runtime: spawned tasks are only   *)
(* polled while the main future is parked inside block_on, that is while   *)
(* `future` is pending in its select!.  Child processes and network peers  *)
(* are the environment and move at any time.                               *)
(***************************************************************************)
EXTENDS Integers, Sequences, FiniteSets, TLC

\* ------------------------------------------------------------------ bounds
MaxCmds == 2        \* commands on the command line (shell + raw)
MaxOut == 2         \* bytes a child writes to its output channels, in all
MaxStdin == 3       \* bytes that arrive on pxx's own standard input
MaxConns == 2       \* connections a proxy directive accepts
MaxRelay == 2       \* bytes the peers send in total over a directive's connections
MaxWait == 4        \* the delay (ms) up to which a dial's backoff is followed
MaxAddr == 3        \* characters of the address part of an endpoint string

Procs == 1..MaxCmds
Chans == {"out", "err"}
Conns == 1..MaxConns
Dirs == {"a2b", "b2a"}
NL == "\n"
Bytes == {"x", NL}

\* ------------------------------------------------------------- Option<T>
None == <<>>
Some(x) == <<x>>
unwrap_or(opt, d) == IF opt = None THEN d ELSE opt[1]

\* std::process::ExitStatus, by what code() returns: Some(n), or None for
\* a child ended by a signal.  success() is "exited with code 0".
ExitStatuses == {Some(0), Some(1), Some(2), None}
success(exit) == exit = Some(0)

\* The command line: Args.commands (shell) then Args.raw_commands, chained
\* in that order by `future` (main.rs 85-91).
CommandLists ==
    UNION {{[i \in 1..(s + r) |-> IF i <= s THEN "shell" ELSE "raw"] :
               r \in 0..(MaxCmds - s)} : s \in 0..MaxCmds}

VARIABLES
    commands,     \* Args.commands ++ Args.raw_commands, by kind
    buffered,     \* Args.buffered
    orchPc,       \* position of main/future: start, spawn, select, after_signal,
                  \* returned, exited, aborted
    next,         \* index of the next exec the for loop of `future` takes
    tasks,        \* Vec<JoinHandle>: the processes still to be awaited
    stdins,       \* Vec<ChildStdin> collected by `future`
    code,         \* `code` of `future`, updated by wait
    result,       \* what block_on(future(args)) produced
    interrupted,  \* the ctrl_c branch of the select! was taken with Ok
    exitCode,     \* the exit code of the pxx process
    child,        \* per process: none, running, exited
    exitStatus,   \* per process: the ExitStatus child.wait() yields
    finishOrder,  \* the order in which the children exited
    wrote,        \* per process and channel: every byte the child wrote
    pipe,         \* per process and channel: bytes written, not yet read by the Runner
    rPc,          \* per Runner: none, wait, select, lock, write, done
    rCh,          \* per Runner: the channel of the select! branch being run
    rRes,         \* per Runner: the io::Result<ExitStatus> it resolved with
    buf,          \* per Runner: out_buf, err_buf
    done,         \* per Runner: out_done, err_done
    nread,        \* per Runner and channel: bytes counted by the pending read_until
    wOff,         \* per Runner: bytes of the chunk write_all has written
    sink,         \* per channel: what reached pxx's stdout / stderr, tagged by process
    lock,         \* per channel: the Runner holding the Mutex, 0 when free
    bPc,          \* the Broadcaster: none, read, write, ended, failed
    bBuf,         \* buf[..n] of broadcast: the chunk being forwarded
    bIdx,         \* how far the for loop over stdins is
    bOff,         \* bytes of the chunk write_all has written to the current handle
    stdinPos,     \* bytes read from pxx's standard input so far
    delivered,    \* per process: the bytes written to its input handle
    inHandle,     \* per process: the ChildStdin handle: none, open, closed
    childIn,      \* per process: the child still has its standard input open
    bWriteFailed, \* a write of broadcast has failed
    proxies,      \* Args.proxies: the number of directives (0 or 1)
    panicAbort,   \* the build's panic strategy: abort (TRUE) or unwind (FALSE)
    pPc,          \* the Proxy Task: none, bind, accept, bind_failed, accept_failed
    nConns,       \* connections accepted so far
    cPc,          \* per connection task: none, dial, relay, closed, panicked
    dirSt,        \* per connection and direction: running, done
    inflight,     \* per connection and direction: bytes sent by the peer, not yet relayed
    relayed,      \* per connection and direction: bytes written to the other stream
    platform,     \* the target of the build: unix or windows (cfg(unix), cfg(windows))
    verbose,      \* Args.verbose
    printed,      \* the lines main wrote to standard error at startup
    readBusy,     \* the blocking read of standard input is in flight on its thread
    destKind,     \* the variant of the directive's destination Endpoint
    dest,         \* the destination, as a dial finds it: absent, busy, listening
    dialWait,     \* per connection: `wait` of Stream::connect
    dialErr,      \* per connection: the cause of the Err Stream::connect returned
    origin,       \* the endpoint, or the endpoint string, a round trip starts from
    shown,        \* the string Display produced
    parsed,       \* the Result FromStr produced
    epPc          \* position of a round trip: off, input, formatted, parsed, back

orchVars == <<commands, buffered, orchPc, next, tasks, stdins, code, result,
              interrupted, exitCode>>
childVars == <<child, exitStatus, finishOrder, wrote, pipe>>
runnerVars == <<rPc, rCh, rRes, buf, done, nread, wOff, sink, lock>>
proxyVars == <<proxies, panicAbort, pPc, nConns, cPc, dirSt, inflight, relayed>>
bcastVars == <<bPc, bBuf, bIdx, bOff, stdinPos, delivered, inHandle, childIn,
               bWriteFailed>>
mainVars == <<platform, verbose, printed>>
dialVars == <<destKind, dest, dialWait, dialErr>>
endpointVars == <<origin, shown, parsed, epPc>>

NoResult == [kind |-> "none", code |-> 0]
Ok(c) == [kind |-> "ok", code |-> c]
Err == [kind |-> "err", code |-> 0]
Panic == [kind |-> "panic", code |-> 0]

EmptyChans == [out |-> <<>>, err |-> <<>>]

\* Spawned tasks are polled only while the main future is pending in select!.
TasksAlwaysRun == TRUE
TasksMayRun == orchPc \in {"select", "after_signal"}
\* Children are separate processes: they run from their spawn on.
ProcessAlive == orchPc \in {"start", "spawn", "select", "after_signal"}

InitProcs ==
    /\ orchPc = "start"
    /\ next = 1
    /\ tasks = <<>>
    /\ stdins = <<>>
    /\ code = 0
    /\ result = NoResult
    /\ interrupted = FALSE
    /\ exitCode = None
    /\ child = [p \in Procs |-> "none"]
    /\ exitStatus = [p \in Procs |-> None]
    /\ finishOrder = <<>>
    /\ wrote = [p \in Procs |-> EmptyChans]
    /\ pipe = [p \in Procs |-> EmptyChans]
    /\ rPc = [p \in Procs |-> "none"]
    /\ rCh = [p \in Procs |-> "out"]
    /\ rRes = [p \in Procs |-> [kind |-> "none", status |-> None]]
    /\ buf = [p \in Procs |-> EmptyChans]
    /\ done = [p \in Procs |-> [out |-> FALSE, err |-> FALSE]]
    /\ nread = [p \in Procs |-> [out |-> 0, err |-> 0]]
    /\ wOff = [p \in Procs |-> 0]
    /\ sink = EmptyChans
    /\ lock = [out |-> 0, err |-> 0]
    /\ bPc = "none"
    /\ bBuf = <<>>
    /\ bIdx = 0
    /\ bOff = 0
    /\ stdinPos = 0
    /\ delivered = [p \in Procs |-> <<>>]
    /\ inHandle = [p \in Procs |-> "none"]
    /\ childIn = [p \in Procs |-> FALSE]
    /\ bWriteFailed = FALSE
    /\ pPc = "none"
    /\ nConns = 0
    /\ cPc = [c \in Conns |-> "none"]
    /\ dirSt = [c \in Conns |-> [a2b |-> "running", b2a |-> "running"]]
    /\ inflight = [c \in Conns |-> [a2b |-> 0, b2a |-> 0]]
    /\ relayed = [c \in Conns |-> [a2b |-> 0, b2a |-> 0]]
    /\ printed = <<>>
    /\ readBusy = FALSE
    /\ dialWait = [c \in Conns |-> 0]
    /\ dialErr = [c \in Conns |-> "none"]

\* ------------------------------------------------------------ orchestrator

\* wait, main.rs 118-120: the first failure met is recorded, never overwritten.
RecordCodeNoFallback(c, exit) ==
    IF ~success(exit) /\ c = 0 THEN unwrap_or(exit, 0) ELSE c
RecordCodeOverwrite(c, exit) ==
    IF ~success(exit) THEN unwrap_or(exit, 1) ELSE c
RecordCode(c, exit) ==
    IF ~success(exit) /\ c = 0 THEN unwrap_or(exit, 1) ELSE c

\* wait, main.rs 116: the task awaited is tasks.last_mut().
AwaitableAny(ts) == 1..Len(ts)
Awaitable(ts) == {Len(ts)}

Remove(s, i) == [j \in 1..(Len(s) - 1) |-> IF j < i THEN s[j] ELSE s[j + 1]]

\* print, main.rs 32-56: the lines written to standard error, by kind: one
\* per directive and an empty one after them, one per command (the shell
\* commands with their shell) and an empty one after them.
print(nProxies, cmds) ==
    [i \in 1..nProxies |-> "Proxying"]
        \o (IF nProxies > 0 THEN <<"">> ELSE <<>>)
        \o [i \in 1..Len(cmds) |->
               IF cmds[i] = "shell" THEN "Spawning shell command" ELSE "Spawning command"]
        \o (IF Len(cmds) > 0 THEN <<"">> ELSE <<>>)

\* main, main.rs 17: `if !args.verbose`.
ShouldPrint(v) == ~v

\* main, main.rs 16-24, up to the first lines of `future`, main.rs 69-71:
\* the startup information is printed or not, then one Proxy Task is
\* spawned per directive, its JoinHandle dropped; the task is first polled
\* when the main future parks.
OrchStart ==
    /\ orchPc = "start"
    /\ orchPc' = "spawn"
    /\ printed' = IF ShouldPrint(verbose) THEN print(proxies, commands) ELSE printed
    /\ pPc' = IF proxies > 0 THEN "bind" ELSE "none"
    /\ UNCHANGED <<commands, buffered, next, tasks, stdins, code, result,
                   interrupted, exitCode>>
    /\ UNCHANGED childVars
    /\ UNCHANGED runnerVars
    /\ UNCHANGED bcastVars
    /\ UNCHANGED <<proxies, panicAbort, nConns, cPc, dirSt, inflight, relayed>>
    /\ UNCHANGED <<platform, verbose, readBusy, dialVars, endpointVars>>

\* Dropping the Vec<ChildStdin> closes every handle it holds.
DropHandles(h) == [p \in Procs |-> IF h[p] = "open" THEN "closed" ELSE h[p]]

\* One turn of the for loop of `future` (main.rs 93-97) with command::spawn
\* (command.rs 36-52) and command::raw / command::shell (command.rs 16-34).
\* A raw command is built with stdin(Stdio::null()), so child.stdin is None
\* and `child.stdin.take().unwrap()` panics after the child was started.
\* `exec?` and the panic both leave `future`, dropping `stdins`.
OrchSpawn ==
    /\ orchPc = "spawn"
    /\ next <= Len(commands)
    /\ \E ok \in BOOLEAN :
        IF ~ok
        THEN /\ result' = Err
             /\ orchPc' = "returned"
             /\ inHandle' = DropHandles(inHandle)
             /\ UNCHANGED <<next, tasks, stdins, child, rPc, childIn>>
        ELSE /\ child' = [child EXCEPT ![next] = "running"]
             /\ IF commands[next] = "raw"
                THEN /\ result' = Panic
                     /\ orchPc' = "returned"
                     /\ inHandle' = DropHandles(inHandle)
                     /\ UNCHANGED <<next, tasks, stdins, rPc, childIn>>
                ELSE /\ rPc' = [rPc EXCEPT ![next] = IF buffered THEN "select" ELSE "wait"]
                     /\ tasks' = Append(tasks, next)
                     /\ stdins' = Append(stdins, next)
                     /\ inHandle' = [inHandle EXCEPT ![next] = "open"]
                     /\ childIn' = [childIn EXCEPT ![next] = TRUE]
                     /\ next' = next + 1
                     /\ UNCHANGED <<result, orchPc>>
    /\ UNCHANGED <<commands, buffered, code, interrupted, exitCode>>
    /\ UNCHANGED <<exitStatus, finishOrder, wrote, pipe>>
    /\ UNCHANGED <<rCh, rRes, buf, done, nread, wOff, sink, lock>>
    /\ UNCHANGED <<bPc, bBuf, bIdx, bOff, stdinPos, delivered, bWriteFailed>>
    /\ UNCHANGED proxyVars
    /\ UNCHANGED <<mainVars, readBusy, dialVars, endpointVars>>

\* main.rs 98-104: the loop is over, the select! is polled for the first
\* time; with no task, wait returns Ok(0) at once and nothing else ever runs.
\* Line 98 hands the input handles to the Broadcaster task.
OrchRace ==
    /\ orchPc = "spawn"
    /\ next > Len(commands)
    /\ IF tasks = <<>>
       THEN result' = Ok(code) /\ orchPc' = "returned"
       ELSE orchPc' = "select" /\ UNCHANGED result
    /\ bPc' = "read"
    /\ UNCHANGED <<commands, buffered, next, tasks, stdins, code, interrupted, exitCode>>
    /\ UNCHANGED childVars
    /\ UNCHANGED runnerVars
    /\ UNCHANGED proxyVars
    /\ UNCHANGED <<bBuf, bIdx, bOff, stdinPos, delivered, inHandle, childIn, bWriteFailed>>
    /\ UNCHANGED <<mainVars, readBusy, dialVars, endpointVars>>

\* wait, main.rs 112-124: one turn of the while loop, the awaited task being
\* complete.  The same code runs in both branches of the select!; `tasks`
\* and `code` are borrowed from `future`, so what the first wait did stays.
OrchWait ==
    /\ TasksMayRun
    /\ tasks # <<>>
    /\ \E i \in Awaitable(tasks) :
        /\ rPc[tasks[i]] = "done"
        /\ IF rRes[tasks[i]].kind = "err"
           THEN /\ result' = Err
                /\ orchPc' = "returned"
                /\ UNCHANGED <<tasks, code>>
           ELSE /\ code' = RecordCode(code, rRes[tasks[i]].status)
                /\ tasks' = Remove(tasks, i)
                /\ IF tasks' = <<>>
                   THEN result' = Ok(code') /\ orchPc' = "returned"
                   ELSE UNCHANGED <<result, orchPc>>
    /\ UNCHANGED <<commands, buffered, next, stdins, interrupted, exitCode>>
    /\ UNCHANGED childVars
    /\ UNCHANGED runnerVars
    /\ UNCHANGED bcastVars
    /\ UNCHANGED proxyVars
    /\ UNCHANGED <<mainVars, readBusy, dialVars, endpointVars>>

\* main.rs 105-108: select! is biased, so ctrl_c is looked at only when wait
\* is pending.  Ok: wait again; Err: `res?` returns the error.
OrchCtrlC ==
    /\ orchPc = "select"
    /\ tasks # <<>>
    /\ rPc[tasks[Len(tasks)]] # "done"
    /\ \E res \in {"ok", "err"} :
        IF res = "ok"
        THEN orchPc' = "after_signal" /\ interrupted' = TRUE /\ UNCHANGED result
        ELSE orchPc' = "returned" /\ result' = Err /\ UNCHANGED interrupted
    /\ UNCHANGED <<commands, buffered, next, tasks, stdins, code, exitCode>>
    /\ UNCHANGED childVars
    /\ UNCHANGED runnerVars
    /\ UNCHANGED bcastVars
    /\ UNCHANGED proxyVars
    /\ UNCHANGED <<mainVars, readBusy, dialVars, endpointVars>>

\* main, main.rs 14-30: process::exit(code) on Ok; `?` makes main return
\* the error (exit code 1); a panic of the main thread ends with 101.
ProcessExitCode(res) ==
    IF res.kind = "ok" THEN res.code ELSE IF res.kind = "err" THEN 1 ELSE 101

\* main.rs 24-27: on Ok, rt.shutdown_background() abandons what still runs
\* and process::exit follows.  The `?` of line 24 (and a panic unwinding
\* through main) leaves main before line 27: `rt` is dropped instead, and
\* dropping a Runtime waits for the blocking read of standard input that
\* is in flight on the blocking pool.
RuntimeDropBlocks == result.kind # "ok" /\ readBusy

MainExit ==
    /\ orchPc = "returned"
    /\ ~RuntimeDropBlocks
    /\ orchPc' = "exited"
    /\ exitCode' = Some(ProcessExitCode(result))
    /\ UNCHANGED <<commands, buffered, next, tasks, stdins, code, result, interrupted>>
    /\ UNCHANGED childVars
    /\ UNCHANGED runnerVars
    /\ UNCHANGED bcastVars
    /\ UNCHANGED proxyVars
    /\ UNCHANGED <<mainVars, readBusy, dialVars, endpointVars>>

\* ---------------------------------------------------------------- children

\* A child ends on its own with some status; its ends of the pipes close.
ChildExit(p, st) ==
    /\ ProcessAlive
    /\ child[p] = "running"
    /\ exitStatus' = [exitStatus EXCEPT ![p] = st]
    /\ child' = [child EXCEPT ![p] = "exited"]
    /\ finishOrder' = Append(finishOrder, p)
    /\ childIn' = [childIn EXCEPT ![p] = FALSE]
    /\ UNCHANGED <<wrote, pipe>>
    /\ UNCHANGED orchVars
    /\ UNCHANGED <<bPc, bBuf, bIdx, bOff, stdinPos, delivered, inHandle, bWriteFailed>>
    /\ UNCHANGED runnerVars
    /\ UNCHANGED proxyVars
    /\ UNCHANGED <<mainVars, readBusy, dialVars, endpointVars>>

\* A child writes one byte.  command.rs 40-45: with buffering the channel is
\* a pipe read by the Runner, without it the child inherits pxx's own stream.
ChildWrite(p, ch, b) ==
    /\ ProcessAlive
    /\ child[p] = "running"
    /\ rPc[p] # "done"
    /\ Len(wrote[p].out) + Len(wrote[p].err) < MaxOut
    /\ wrote' = [wrote EXCEPT ![p][ch] = Append(@, b)]
    /\ IF buffered
       THEN pipe' = [pipe EXCEPT ![p][ch] = Append(@, b)] /\ UNCHANGED sink
       ELSE sink' = [sink EXCEPT ![ch] = Append(@, <<p, b>>)] /\ UNCHANGED pipe
    /\ UNCHANGED <<child, exitStatus, finishOrder>>
    /\ UNCHANGED orchVars
    /\ UNCHANGED bcastVars
    /\ UNCHANGED proxyVars
    /\ UNCHANGED <<rPc, rCh, rRes, buf, done, nread, wOff, lock>>
    /\ UNCHANGED <<mainVars, readBusy, dialVars, endpointVars>>

\* ------------------------------------------------------------------ Runner

FirstNewline(s) ==
    IF \E i \in 1..Len(s) : s[i] = NL
    THEN CHOOSE i \in 1..Len(s) : s[i] = NL /\ \A j \in 1..(i - 1) : s[j] # NL
    ELSE 0

\* One poll of read_until(b'\n', buf) (command.rs 91, 102): everything
\* available up to and including the first newline is appended to buf.
\* Ready at a newline or at end-of-stream, with the count of the bytes this
\* future appended; pending otherwise, the bytes staying in buf.
read_until(avail, eof, b, n) ==
    LET i == FirstNewline(avail) IN
    IF i > 0
    THEN [ready |-> TRUE, pipe |-> SubSeq(avail, i + 1, Len(avail)),
          buf |-> b \o SubSeq(avail, 1, i), n |-> n + i]
    ELSE [ready |-> eof, pipe |-> <<>>, buf |-> b \o avail, n |-> n + Len(avail)]

\* exec without buffers (command.rs 75): child.wait().await.
RunnerWait(p) ==
    /\ TasksMayRun
    /\ rPc[p] = "wait"
    /\ child[p] = "exited"
    /\ rPc' = [rPc EXCEPT ![p] = "done"]
    /\ rRes' = [rRes EXCEPT ![p] = [kind |-> "ok", status |-> exitStatus[p]]]
    /\ UNCHANGED <<rCh, buf, done, nread, wOff, sink, lock>>
    /\ UNCHANGED orchVars
    /\ UNCHANGED bcastVars
    /\ UNCHANGED proxyVars
    /\ UNCHANGED childVars
    /\ UNCHANGED <<mainVars, readBusy, dialVars, endpointVars>>

\* exec with buffers: one poll of the biased select! (command.rs 87-116).
\* The branches are polled in order: stdout read, stderr read, child.wait().
\* The first ready one runs and the futures of the others are dropped; a
\* dropped read_until leaves what it appended in its buffer and the next
\* read_until starts counting from 0.
RunnerSelect(p) ==
    /\ TasksMayRun
    /\ rPc[p] = "select"
    /\ LET eof == child[p] = "exited"
           o == read_until(pipe[p].out, eof, buf[p].out, nread[p].out)
           e == read_until(pipe[p].err, eof, buf[p].err, nread[p].err)
           pollOut == ~done[p].out
           outReady == pollOut /\ o.ready
           pollErr == ~outReady /\ ~done[p].err
           errReady == pollErr /\ e.ready
           waitReady == ~outReady /\ ~errReady /\ eof
           anyReady == outReady \/ errReady \/ waitReady
           pipe1 == [out |-> IF pollOut THEN o.pipe ELSE pipe[p].out,
                     err |-> IF pollErr THEN e.pipe ELSE pipe[p].err]
           buf1 == [out |-> IF pollOut THEN o.buf ELSE buf[p].out,
                    err |-> IF pollErr THEN e.buf ELSE buf[p].err]
           n1 == IF outReady THEN o.n ELSE e.n
           ch1 == IF outReady THEN "out" ELSE "err"
       IN
       /\ anyReady \/ pipe1 # pipe[p]
       /\ pipe' = [pipe EXCEPT ![p] = pipe1]
       /\ buf' = [buf EXCEPT ![p] = buf1]
       /\ nread' = [nread EXCEPT ![p] =
                       IF anyReady THEN [out |-> 0, err |-> 0]
                       ELSE [out |-> IF pollOut THEN o.n ELSE @.out,
                             err |-> IF pollErr THEN e.n ELSE @.err]]
       /\ IF outReady \/ errReady
          THEN /\ IF n1 = 0
                  THEN /\ done' = [done EXCEPT ![p][ch1] = TRUE]
                       /\ UNCHANGED <<rPc, rCh>>
                  ELSE /\ rPc' = [rPc EXCEPT ![p] = "lock"]
                       /\ rCh' = [rCh EXCEPT ![p] = ch1]
                       /\ UNCHANGED done
               /\ UNCHANGED rRes
          ELSE /\ IF waitReady
                  THEN /\ rPc' = [rPc EXCEPT ![p] = "done"]
                       /\ rRes' = [rRes EXCEPT ![p] =
                                      [kind |-> "ok", status |-> exitStatus[p]]]
                  ELSE UNCHANGED <<rPc, rRes>>
               /\ UNCHANGED <<rCh, done>>
    /\ UNCHANGED <<wOff, sink, lock>>
    /\ UNCHANGED orchVars
    /\ UNCHANGED bcastVars
    /\ UNCHANGED proxyVars
    /\ UNCHANGED <<child, exitStatus, finishOrder, wrote>>
    /\ UNCHANGED <<mainVars, readBusy, dialVars, endpointVars>>

\* command.rs 98, 109: out.lock().await / err.lock().await.
LockAlwaysFree(ch) == TRUE
LockFree(ch) == lock[ch] = 0

RunnerLock(p) ==
    /\ TasksMayRun
    /\ rPc[p] = "lock"
    /\ LockFree(rCh[p])
    /\ lock' = [lock EXCEPT ![rCh[p]] = p]
    /\ rPc' = [rPc EXCEPT ![p] = "write"]
    /\ wOff' = [wOff EXCEPT ![p] = 0]
    /\ UNCHANGED <<rCh, rRes, buf, done, nread, sink>>
    /\ UNCHANGED orchVars
    /\ UNCHANGED bcastVars
    /\ UNCHANGED proxyVars
    /\ UNCHANGED childVars
    /\ UNCHANGED <<mainVars, readBusy, dialVars, endpointVars>>

\* command.rs 99-100, 110-111: lock.write_all(&buf).await, which may take
\* several writes; then buf.clear() and the guard is dropped.
RunnerWrite(p) ==
    /\ TasksMayRun
    /\ rPc[p] = "write"
    /\ LET ch == rCh[p]
           b == buf[p][ch]
       IN
       /\ sink' = [sink EXCEPT ![ch] = Append(@, <<p, b[wOff[p] + 1]>>)]
       /\ IF wOff[p] + 1 = Len(b)
          THEN /\ buf' = [buf EXCEPT ![p][ch] = <<>>]
               /\ lock' = [lock EXCEPT ![ch] = 0]
               /\ rPc' = [rPc EXCEPT ![p] = "select"]
               /\ wOff' = [wOff EXCEPT ![p] = 0]
          ELSE /\ wOff' = [wOff EXCEPT ![p] = @ + 1]
               /\ UNCHANGED <<buf, lock, rPc>>
    /\ UNCHANGED <<rCh, rRes, done, nread>>
    /\ UNCHANGED orchVars
    /\ UNCHANGED bcastVars
    /\ UNCHANGED proxyVars
    /\ UNCHANGED childVars
    /\ UNCHANGED <<mainVars, readBusy, dialVars, endpointVars>>

\* The `?` of command.rs 92, 99, 103, 110 and an Err of child.wait() (75,
\* 114): a host I/O error ends the Runner with Err; its guard is dropped.
RunnerError(p) ==
    /\ TasksMayRun
    /\ rPc[p] \in {"wait", "select", "write"}
    /\ rPc' = [rPc EXCEPT ![p] = "done"]
    /\ rRes' = [rRes EXCEPT ![p] = [kind |-> "err", status |-> None]]
    /\ lock' = [ch \in Chans |-> IF lock[ch] = p THEN 0 ELSE lock[ch]]
    /\ UNCHANGED <<rCh, buf, done, nread, wOff, sink>>
    /\ UNCHANGED orchVars
    /\ UNCHANGED bcastVars
    /\ UNCHANGED proxyVars
    /\ UNCHANGED childVars
    /\ UNCHANGED <<mainVars, readBusy, dialVars, endpointVars>>

\* ------------------------------------------------------------- Broadcaster

\* The bytes of pxx's standard input are named by their position.
StdinBytes(from, n) == [i \in 1..n |-> from + i]

\* broadcast, command.rs 64: `for stdin in &mut stdins`, the k-th handle visited.
StdinAtReversed(hs, k) == hs[Len(hs) + 1 - k]
StdinAt(hs, k) == hs[k]

\* broadcast, command.rs 65: the `?` on a failed write_all leaves the loop
\* and the function; nothing is forwarded any more.
OnWriteErrorSkip(k, n) ==
    [pc |-> IF k < n THEN "write" ELSE "read", idx |-> k + 1, closed |-> FALSE]
OnWriteError(k, n) == [pc |-> "failed", idx |-> k, closed |-> TRUE]

\* broadcast, command.rs 59-62: stdin.read(&mut buf).await?; n = 0 is
\* end-of-stream and ends the Broadcaster, as does a read error.  Its
\* `stdins` are dropped with it.
BroadcastRead(n) ==
    /\ TasksMayRun
    /\ bPc = "read"
    /\ n \in 0..(MaxStdin - stdinPos)
    /\ IF n = 0
       THEN /\ bPc' = "ended"
            /\ inHandle' = DropHandles(inHandle)
            /\ UNCHANGED <<bBuf, bIdx, bOff, stdinPos>>
       ELSE /\ bBuf' = StdinBytes(stdinPos, n)
            /\ stdinPos' = stdinPos + n
            /\ bIdx' = 1
            /\ bOff' = 0
            /\ bPc' = IF stdins = <<>> THEN "read" ELSE "write"
            /\ UNCHANGED inHandle
    /\ UNCHANGED <<delivered, childIn, bWriteFailed>>
    /\ UNCHANGED orchVars
    /\ UNCHANGED childVars
    /\ UNCHANGED runnerVars
    /\ UNCHANGED proxyVars
    /\ readBusy' = FALSE
    /\ UNCHANGED <<mainVars, dialVars, endpointVars>>

\* broadcast, command.rs 59 and tokio::io::stdin: the read is an ordinary
\* blocking read run on a thread of the blocking pool; with no input at
\* hand it stays in flight there and cannot be cancelled.
BroadcastBlock ==
    /\ TasksMayRun
    /\ bPc = "read"
    /\ ~readBusy
    /\ readBusy' = TRUE
    /\ UNCHANGED orchVars
    /\ UNCHANGED childVars
    /\ UNCHANGED runnerVars
    /\ UNCHANGED bcastVars
    /\ UNCHANGED proxyVars
    /\ UNCHANGED <<mainVars, dialVars, endpointVars>>

\* The read in flight returns (input or end-of-stream) while main is
\* dropping the runtime: nobody takes what it read.
BlockingReadReturns(n) ==
    /\ orchPc = "returned"
    /\ readBusy
    /\ n \in 0..(MaxStdin - stdinPos)
    /\ readBusy' = FALSE
    /\ stdinPos' = stdinPos + n
    /\ UNCHANGED <<bPc, bBuf, bIdx, bOff, delivered, inHandle, childIn, bWriteFailed>>
    /\ UNCHANGED orchVars
    /\ UNCHANGED childVars
    /\ UNCHANGED runnerVars
    /\ UNCHANGED proxyVars
    /\ UNCHANGED <<mainVars, dialVars, endpointVars>>

\* broadcast, command.rs 64-66: one write of stdin.write_all(&buf[..n]) to
\* the handle the loop is at; writing into a pipe whose reader is gone fails.
BroadcastWrite ==
    /\ TasksMayRun
    /\ bPc = "write"
    /\ LET p == StdinAt(stdins, bIdx) IN
       IF childIn[p]
       THEN \E k \in 1..(Len(bBuf) - bOff) :
               /\ delivered' = [delivered EXCEPT ![p] =
                                   @ \o SubSeq(bBuf, bOff + 1, bOff + k)]
               /\ IF bOff + k < Len(bBuf)
                  THEN bOff' = bOff + k /\ UNCHANGED <<bIdx, bPc>>
                  ELSE /\ bOff' = 0
                       /\ IF bIdx < Len(stdins)
                          THEN bIdx' = bIdx + 1 /\ UNCHANGED bPc
                          ELSE bPc' = "read" /\ UNCHANGED bIdx
               /\ UNCHANGED <<inHandle, bWriteFailed>>
       ELSE LET e == OnWriteError(bIdx, Len(stdins)) IN
            /\ bWriteFailed' = TRUE
            /\ bPc' = e.pc
            /\ bIdx' = e.idx
            /\ bOff' = 0
            /\ inHandle' = IF e.closed THEN DropHandles(inHandle) ELSE inHandle
            /\ UNCHANGED delivered
    /\ UNCHANGED <<bBuf, stdinPos, childIn>>
    /\ UNCHANGED orchVars
    /\ UNCHANGED childVars
    /\ UNCHANGED runnerVars
    /\ UNCHANGED proxyVars
    /\ UNCHANGED <<mainVars, readBusy, dialVars, endpointVars>>

\* A child closes its standard input while it keeps running.
ChildCloseStdin(p) ==
    /\ ProcessAlive
    /\ child[p] = "running"
    /\ childIn[p]
    /\ childIn' = [childIn EXCEPT ![p] = FALSE]
    /\ UNCHANGED <<bPc, bBuf, bIdx, bOff, stdinPos, delivered, inHandle, bWriteFailed>>
    /\ UNCHANGED orchVars
    /\ UNCHANGED childVars
    /\ UNCHANGED runnerVars
    /\ UNCHANGED proxyVars
    /\ UNCHANGED <<mainVars, readBusy, dialVars, endpointVars>>

\* -------------------------------------------------------------- Proxy Task

\* proxy, proxy.rs 25: Listener::bind(source).await?.  On failure the task
\* returns the error to a JoinHandle nobody holds.
ProxyBind(ok) ==
    /\ TasksMayRun
    /\ pPc = "bind"
    /\ pPc' = IF ok THEN "accept" ELSE "bind_failed"
    /\ UNCHANGED <<proxies, panicAbort, nConns, cPc, dirSt, inflight, relayed>>
    /\ UNCHANGED orchVars
    /\ UNCHANGED childVars
    /\ UNCHANGED runnerVars
    /\ UNCHANGED bcastVars
    /\ UNCHANGED <<mainVars, readBusy, dialVars, endpointVars>>

\* proxy, proxy.rs 27-36: listener.accept().await? and the spawn of the
\* connection's own task, which starts by dialing the destination.
ProxyAccept(ok) ==
    /\ TasksMayRun
    /\ pPc = "accept"
    /\ nConns < MaxConns
    /\ IF ok
       THEN /\ nConns' = nConns + 1
            /\ cPc' = [cPc EXCEPT ![nConns + 1] = "dial"]
            /\ UNCHANGED pPc
       ELSE /\ pPc' = "accept_failed"
            /\ UNCHANGED <<nConns, cPc>>
    /\ UNCHANGED <<proxies, panicAbort, dirSt, inflight, relayed>>
    /\ UNCHANGED orchVars
    /\ UNCHANGED childVars
    /\ UNCHANGED runnerVars
    /\ UNCHANGED bcastVars
    /\ UNCHANGED <<mainVars, readBusy, dialVars, endpointVars>>

\* proxy.rs 32, 35: `.unwrap()` on an Err panics inside the connection's
\* task.  With panic = unwind the runtime catches it and the task ends, its
\* streams dropped; with panic = abort the whole process is aborted.
ConnPanic(c) ==
    IF panicAbort
    THEN /\ orchPc' = "aborted"
         /\ cPc' = [cPc EXCEPT ![c] = "panicked"]
    ELSE /\ cPc' = [cPc EXCEPT ![c] = "panicked"]
         /\ UNCHANGED orchPc

\* Endpoint, proxy.rs 15-22: Unix exists on unix builds, Pipe on windows builds.
Platforms == {"unix", "windows"}
Kinds(pf) == IF pf = "unix" THEN {"tcp", "unix"} ELSE {"tcp", "pipe"}

\* The destination as the host shows it to a dial: nothing at the address
\* (absent), a server that cannot take the connection now (busy: for a named
\* pipe every instance taken, os error 231; for a socket nobody accepting),
\* or a listener.  Any attempt can also meet a host error of another kind.
DestStates == {"absent", "busy", "listening"}
Attempt(d, hostErr) == IF hostErr THEN "other" ELSE IF d = "listening" THEN "ok" ELSE d

\* Stream::connect, proxy.rs 63-89: one attempt.  Tcp and Unix: `connect(..)
\* .await?`, any error is returned.  Pipe: os error 231 is retried after
\* yield_now (wait 0 -> 1) or sleep(wait) (wait doubled); other errors are
\* returned.
connect(kind, att, wait) ==
    IF att = "ok"
    THEN [res |-> "ok", wait |-> wait]
    ELSE IF kind = "pipe" /\ att = "busy"
         THEN [res |-> "retry", wait |-> IF wait = 0 THEN 1 ELSE wait * 2]
         ELSE [res |-> "err", wait |-> wait]

\* proxy.rs 32: Stream::connect(destination).await.unwrap().
ConnDial(c, hostErr) ==
    /\ TasksMayRun
    /\ cPc[c] = "dial"
    /\ LET att == Attempt(dest, hostErr)
           r == connect(destKind, att, dialWait[c])
       IN
       /\ r.res = "retry" => dialWait[c] <= MaxWait
       /\ dialWait' = [dialWait EXCEPT ![c] = r.wait]
       /\ dialErr' = [dialErr EXCEPT ![c] = IF r.res = "err" THEN att ELSE @]
       /\ IF r.res = "ok"
          THEN cPc' = [cPc EXCEPT ![c] = "relay"] /\ UNCHANGED orchPc
          ELSE IF r.res = "retry"
               THEN UNCHANGED <<cPc, orchPc>>
               ELSE ConnPanic(c)
    /\ UNCHANGED <<commands, buffered, next, tasks, stdins, code, result,
                   interrupted, exitCode>>
    /\ UNCHANGED <<proxies, panicAbort, pPc, nConns, dirSt, inflight, relayed>>
    /\ UNCHANGED childVars
    /\ UNCHANGED runnerVars
    /\ UNCHANGED bcastVars
    /\ UNCHANGED <<mainVars, readBusy, destKind, dest, endpointVars>>

\* The destination's server comes, goes, or fills up.
DestChange(d) ==
    /\ ProcessAlive
    /\ pPc = "accept"
    /\ d # dest
    /\ dest' = d
    /\ UNCHANGED <<destKind, dialWait, dialErr>>
    /\ UNCHANGED orchVars
    /\ UNCHANGED childVars
    /\ UNCHANGED runnerVars
    /\ UNCHANGED bcastVars
    /\ UNCHANGED proxyVars
    /\ UNCHANGED <<mainVars, readBusy, endpointVars>>

Opp(d) == IF d = "a2b" THEN "b2a" ELSE "a2b"

SentOn(c) == inflight[c].a2b + relayed[c].a2b + inflight[c].b2a + relayed[c].b2a
RECURSIVE SentUpTo(_)
SentUpTo(n) == IF n = 0 THEN 0 ELSE SentOn(n) + SentUpTo(n - 1)

\* A peer (the client for a2b, the destination for b2a) sends one byte.
PeerSend(c, d) ==
    /\ ProcessAlive
    /\ cPc[c] = "relay"
    /\ dirSt[c][d] = "running"
    /\ SentUpTo(MaxConns) < MaxRelay
    /\ inflight' = [inflight EXCEPT ![c][d] = @ + 1]
    /\ UNCHANGED <<proxies, panicAbort, pPc, nConns, cPc, dirSt, relayed>>
    /\ UNCHANGED orchVars
    /\ UNCHANGED childVars
    /\ UNCHANGED runnerVars
    /\ UNCHANGED bcastVars
    /\ UNCHANGED <<mainVars, readBusy, dialVars, endpointVars>>

\* proxy.rs 33: copy_bidirectional returns Ok once both directions are
\* done: a direction is done when its reader reported end-of-stream and
\* the writer was shut down.
RelayCompleteEither(a, b) == a = "done" \/ b = "done"
RelayComplete(a, b) == a = "done" /\ b = "done"

\* proxy.rs 33: copy_bidirectional moves a byte read from one stream to
\* the other.
RelayCopy(c, d) ==
    /\ TasksMayRun
    /\ cPc[c] = "relay"
    /\ dirSt[c][d] = "running"
    /\ inflight[c][d] > 0
    /\ inflight' = [inflight EXCEPT ![c][d] = @ - 1]
    /\ relayed' = [relayed EXCEPT ![c][d] = @ + 1]
    /\ UNCHANGED <<proxies, panicAbort, pPc, nConns, cPc, dirSt>>
    /\ UNCHANGED orchVars
    /\ UNCHANGED childVars
    /\ UNCHANGED runnerVars
    /\ UNCHANGED bcastVars
    /\ UNCHANGED <<mainVars, readBusy, dialVars, endpointVars>>

\* proxy.rs 33-35: the peer of direction d has closed its sending side and
\* copy_bidirectional reads end-of-stream: the other stream is shut down
\* for writing and direction d is done.  When the relay is complete the
\* task ends and both streams are dropped.
RelayEof(c, d) ==
    /\ TasksMayRun
    /\ cPc[c] = "relay"
    /\ dirSt[c][d] = "running"
    /\ inflight[c][d] = 0
    /\ dirSt' = [dirSt EXCEPT ![c][d] = "done"]
    /\ cPc' = [cPc EXCEPT ![c] =
                  IF RelayComplete(dirSt'[c].a2b, dirSt'[c].b2a) THEN "closed" ELSE @]
    /\ UNCHANGED <<proxies, panicAbort, pPc, nConns, inflight, relayed>>
    /\ UNCHANGED orchVars
    /\ UNCHANGED childVars
    /\ UNCHANGED runnerVars
    /\ UNCHANGED bcastVars
    /\ UNCHANGED <<mainVars, readBusy, dialVars, endpointVars>>

\* proxy.rs 33-35: a read or write of the relay fails; copy_bidirectional
\* returns Err and `.unwrap()` panics.
RelayError(c) ==
    /\ TasksMayRun
    /\ cPc[c] = "relay"
    /\ ConnPanic(c)
    /\ UNCHANGED <<commands, buffered, next, tasks, stdins, code, result,
                   interrupted, exitCode>>
    /\ UNCHANGED <<proxies, panicAbort, pPc, nConns, dirSt, inflight, relayed>>
    /\ UNCHANGED childVars
    /\ UNCHANGED runnerVars
    /\ UNCHANGED bcastVars
    /\ UNCHANGED <<mainVars, readBusy, dialVars, endpointVars>>

vars == <<orchVars, childVars, runnerVars, bcastVars, proxyVars, mainVars,
          readBusy, dialVars, endpointVars>>

\* ---------------------------------------------------------- endpoint text
\* Strings are sequences of characters.  The characters of an address: a
\* letter of a host name, a digit of an IP literal, a digit of a port, and
\* the two separators.
AddrChars == {"h", "1", "9", ":", "/"}
RECURSIVE StringsOf(_)
StringsOf(n) ==
    IF n = 0 THEN {<<>>}
    ELSE LET shorter == StringsOf(n - 1)
         IN shorter \cup {Append(t, ch) : t \in {u \in shorter : Len(u) = n - 1},
                                           ch \in AddrChars}
AddrStrings == StringsOf(MaxAddr)

SchemeText(kind) ==
    IF kind = "tcp" THEN <<"t", "c", "p">>
    ELSE IF kind = "unix" THEN <<"u", "n", "i", "x">>
    ELSE <<"p", "i", "p", "e">>
SchemeSep == <<":", "/", "/">>

\* Result<ProxyEndpoint, _>; a SocketAddr is held as the text that names it.
ParseErr == [ok |-> FALSE, kind |-> "none", addr |-> <<>>]
ParseOk(kind, addr) == [ok |-> TRUE, kind |-> kind, addr |-> addr]

\* str::split_once(pat) and str::rsplit_once(':'): the index where the
\* first (last) match starts, 0 when there is none.
FirstMatch(t, pat) ==
    LET at(i) == i + Len(pat) - 1 <= Len(t) /\ SubSeq(t, i, i + Len(pat) - 1) = pat
    IN IF \E i \in 1..Len(t) : at(i)
       THEN CHOOSE i \in 1..Len(t) : at(i) /\ \A j \in 1..(i - 1) : ~at(j)
       ELSE 0
LastColon(t) ==
    IF \E i \in 1..Len(t) : t[i] = ":"
    THEN CHOOSE i \in 1..Len(t) : t[i] = ":" /\ \A j \in (i + 1)..Len(t) : t[j] # ":"
    ELSE 0

\* <str as ToSocketAddrs>::to_socket_addrs: the text after the last colon
\* is the port (a u16), the text before it an IP literal or a host name to
\* resolve; the only name that resolves is "h", to the address "1".
IsPort(t) == Len(t) \in 1..4 /\ \A i \in 1..Len(t) : t[i] = "9"
IsIp(t) == Len(t) > 0 /\ \A i \in 1..Len(t) : t[i] = "1"
Resolves(host) == IsIp(host) \/ host = <<"h">>
Resolve(host) == IF IsIp(host) THEN host ELSE <<"1">>

\* The closure `tcp` of from_str, args.rs 145-153: the first address.
tcp(endpoint) ==
    LET i == LastColon(endpoint)
        host == SubSeq(endpoint, 1, i - 1)
        port == SubSeq(endpoint, i + 1, Len(endpoint))
    IN IF i > 0 /\ IsPort(port) /\ Resolves(host)
       THEN ParseOk("tcp", Resolve(host) \o <<":">> \o port)
       ELSE ParseErr

\* impl FromStr for ProxyEndpoint, args.rs 141-169.
from_str(pf, t) ==
    LET i == FirstMatch(t, SchemeSep)
        scheme == SubSeq(t, 1, i - 1)
        rest == SubSeq(t, i + Len(SchemeSep), Len(t))
    IN IF i = 0 THEN tcp(t)
       ELSE IF scheme = SchemeText("tcp") THEN tcp(rest)
       ELSE IF scheme = SchemeText("unix")
            THEN IF pf = "unix" THEN ParseOk("unix", rest) ELSE ParseErr
       ELSE IF scheme = SchemeText("pipe")
            THEN IF pf = "windows" THEN ParseOk("pipe", rest) ELSE ParseErr
       ELSE ParseErr

\* impl Display for Endpoint, proxy.rs 125-135: "tcp:{addr}", "unix:{path}",
\* "pipe:{name}".
Display(e) == SchemeText(e.kind) \o <<":">> \o e.addr

\* The endpoints of a platform: a Tcp of any socket address, a Unix of any
\* path (a Pipe of any name).
Endpoints(pf) ==
    {ParseOk("tcp", a) : a \in {t \in AddrStrings : tcp(t) = ParseOk("tcp", t)}}
        \cup {ParseOk(k, a) : k \in Kinds(pf) \ {"tcp"}, a \in AddrStrings}

\* The endpoint strings tried: an address alone or after a scheme.
EndpointTexts ==
    AddrStrings \cup {SchemeText(k) \o SchemeSep \o a :
                         k \in {"tcp", "unix", "pipe"}, a \in AddrStrings}

FromEndpoint(e) == [dir |-> "show", text |-> <<>>, ep |-> e]
FromText(t) == [dir |-> "parse", text |-> t, ep |-> ParseErr]

\* Display applied: to the endpoint given, or to the one just parsed.
EndpointFormat ==
    /\ \/ epPc = "input" /\ origin.dir = "show"
          /\ shown' = Display(origin.ep) /\ epPc' = "formatted"
       \/ epPc = "parsed" /\ parsed.ok
          /\ shown' = Display(parsed) /\ epPc' = "back"
    /\ UNCHANGED <<origin, parsed>>
    /\ UNCHANGED <<orchVars, childVars, runnerVars, bcastVars, proxyVars>>
    /\ UNCHANGED <<mainVars, readBusy, dialVars>>

\* FromStr applied: to the string given, or to the one just formatted.
EndpointParse ==
    /\ \/ epPc = "input" /\ origin.dir = "parse"
          /\ parsed' = from_str(platform, origin.text) /\ epPc' = "parsed"
       \/ epPc = "formatted"
          /\ parsed' = from_str(platform, shown) /\ epPc' = "back"
    /\ UNCHANGED <<origin, shown>>
    /\ UNCHANGED <<orchVars, childVars, runnerVars, bcastVars, proxyVars>>
    /\ UNCHANGED <<mainVars, readBusy, dialVars>>

\* What a run does not exercise stays as it starts.
NoRoundTrip ==
    origin = FromText(<<>>) /\ shown = <<>> /\ parsed = ParseErr /\ epPc = "off"
TcpDestination == platform = "unix" /\ destKind = "tcp" /\ dest = "listening"

\* ------------------------------------------------- the orchestration runs
\* Any command line, buffered or not; the children write nothing, and
\* nothing is forwarded from standard input, where a read may be in flight.
InitOrch ==
    /\ commands \in CommandLists
    /\ buffered \in BOOLEAN
    /\ proxies = 0
    /\ panicAbort = FALSE
    /\ verbose = FALSE
    /\ TcpDestination
    /\ NoRoundTrip
    /\ InitProcs

NextOrch ==
    \/ OrchStart
    \/ OrchSpawn
    \/ OrchRace
    \/ OrchWait
    \/ OrchCtrlC
    \/ MainExit
    \/ \E p \in Procs, st \in ExitStatuses : ChildExit(p, st)
    \/ \E p \in Procs : RunnerWait(p)
    \/ \E p \in Procs : RunnerSelect(p)
    \/ \E p \in Procs : RunnerError(p)
    \/ BroadcastBlock
    \/ \E n \in {0, 1} : BlockingReadReturns(n)

SpecOrch == InitOrch /\ [][NextOrch]_vars

\* ------------------------------------------------------- the Runner runs
\* Shell commands only, buffering on, the children write to both channels.
InitRunner ==
    /\ commands \in {c \in CommandLists : c # <<>> /\ \A i \in 1..Len(c) : c[i] = "shell"}
    /\ buffered = TRUE
    /\ proxies = 0
    /\ panicAbort = FALSE
    /\ verbose = FALSE
    /\ TcpDestination
    /\ NoRoundTrip
    /\ InitProcs

NextRunner ==
    \/ OrchStart
    \/ OrchSpawn
    \/ OrchRace
    \/ OrchWait
    \/ MainExit
    \/ \E p \in Procs : ChildExit(p, Some(0))
    \/ \E p \in Procs, ch \in Chans, b \in Bytes : ChildWrite(p, ch, b)
    \/ \E p \in Procs : RunnerSelect(p)
    \/ \E p \in Procs : RunnerLock(p)
    \/ \E p \in Procs : RunnerWrite(p)
    \/ \E p \in Procs : RunnerError(p)

SpecRunner == InitRunner /\ [][NextRunner]_vars

\* ------------------------------------------------------ the locking runs
\* Shell commands only, buffering on; the children write MaxOut lines
\* between them, to both channels, and exit in the order they were
\* started; the reads and sink writes all complete.  A Runner that can
\* take a free lock or go on with its sink write is polled (weak fairness).
RECURSIVE WroteUpTo(_)
WroteUpTo(n) ==
    IF n = 0 THEN 0 ELSE Len(wrote[n].out) + Len(wrote[n].err) + WroteUpTo(n - 1)

NextLock ==
    \/ OrchStart
    \/ OrchSpawn
    \/ OrchRace
    \/ OrchWait
    \/ MainExit
    \/ \E p \in Procs :
          (\A q \in 1..(p - 1) : child[q] = "exited") /\ ChildExit(p, Some(0))
    \/ \E p \in Procs, ch \in Chans :
          WroteUpTo(MaxCmds) < MaxOut /\ ChildWrite(p, ch, NL)
    \/ \E p \in Procs : RunnerSelect(p)
    \/ \E p \in Procs : RunnerLock(p)
    \/ \E p \in Procs : RunnerWrite(p)

SpecLock ==
    /\ InitRunner
    /\ [][NextLock]_vars
    /\ \A p \in Procs : WF_vars(RunnerLock(p) \/ RunnerWrite(p))

\* ---------------------------------------------------- the broadcast runs
\* Any command line, no buffering; bytes arrive on pxx's standard input and
\* no interrupt is delivered.
InitBroadcast ==
    /\ commands \in CommandLists
    /\ buffered = FALSE
    /\ proxies = 0
    /\ panicAbort = FALSE
    /\ verbose = FALSE
    /\ TcpDestination
    /\ NoRoundTrip
    /\ InitProcs

NextBroadcast ==
    \/ OrchStart
    \/ OrchSpawn
    \/ OrchRace
    \/ OrchWait
    \/ MainExit
    \/ \E p \in Procs, st \in {Some(0), Some(1)} : ChildExit(p, st)
    \/ \E p \in Procs : ChildCloseStdin(p)
    \/ \E p \in Procs : RunnerWait(p)
    \/ BroadcastBlock
    \/ \E n \in 0..MaxStdin : BroadcastRead(n)
    \/ BroadcastWrite

SpecBroadcast == InitBroadcast /\ [][NextBroadcast]_vars

\* -------------------------------------------------------- the proxy runs
\* One directive, verbose or not, and at most one command; a shell command
\* keeps the orchestrator waiting while peers connect, send and close at
\* any time.
InitProxy ==
    /\ commands \in {c \in CommandLists : Len(c) <= 1}
    /\ buffered = FALSE
    /\ proxies = 1
    /\ panicAbort \in BOOLEAN
    /\ verbose \in BOOLEAN
    /\ TcpDestination
    /\ NoRoundTrip
    /\ InitProcs

NextProxy ==
    \/ OrchStart
    \/ OrchSpawn
    \/ OrchRace
    \/ OrchWait
    \/ MainExit
    \/ \E p \in Procs : ChildExit(p, Some(0))
    \/ \E p \in Procs : RunnerWait(p)
    \/ \E ok \in BOOLEAN : ProxyBind(ok)
    \/ \E ok \in BOOLEAN : ProxyAccept(ok)
    \/ \E c \in Conns, hostErr \in BOOLEAN : ConnDial(c, hostErr)
    \/ \E c \in Conns, d \in Dirs : PeerSend(c, d)
    \/ \E c \in Conns, d \in Dirs : RelayCopy(c, d)
    \/ \E c \in Conns, d \in Dirs : RelayEof(c, d)
    \/ \E c \in Conns : RelayError(c)

SpecProxy == InitProxy /\ [][NextProxy]_vars

\* --------------------------------------------------------- the dial runs
\* One directive on either platform, to a destination of any kind the
\* platform has, which may not be listening when a connection is accepted.
InitDial ==
    /\ commands = <<"shell">>
    /\ buffered = FALSE
    /\ proxies = 1
    /\ panicAbort \in BOOLEAN
    /\ verbose = FALSE
    /\ platform \in Platforms
    /\ destKind \in Kinds(platform)
    /\ dest \in DestStates
    /\ NoRoundTrip
    /\ InitProcs

NextDial ==
    \/ OrchStart
    \/ OrchSpawn
    \/ OrchRace
    \/ OrchWait
    \/ MainExit
    \/ \E p \in Procs : ChildExit(p, Some(0))
    \/ \E p \in Procs : RunnerWait(p)
    \/ \E ok \in BOOLEAN : ProxyBind(ok)
    \/ \E ok \in BOOLEAN : ProxyAccept(ok)
    \/ \E c \in Conns, hostErr \in BOOLEAN : ConnDial(c, hostErr)
    \/ \E d \in DestStates : DestChange(d)

SpecDial == InitDial /\ [][NextDial]_vars

\* ------------------------------------------------ the endpoint round trips
\* An endpoint is formatted and parsed again, or an endpoint string is
\* parsed and formatted, on either platform.
InitEndpoint ==
    /\ commands = <<>>
    /\ buffered = FALSE
    /\ proxies = 0
    /\ panicAbort = FALSE
    /\ verbose = FALSE
    /\ platform \in Platforms
    /\ destKind = "tcp"
    /\ dest = "listening"
    /\ origin \in {FromEndpoint(e) : e \in Endpoints(platform)}
                     \cup {FromText(t) : t \in EndpointTexts}
    /\ shown = <<>>
    /\ parsed = ParseErr
    /\ epPc = "input"
    /\ InitProcs

NextEndpoint ==
    \/ EndpointFormat
    \/ EndpointParse

SpecEndpoint == InitEndpoint /\ [][NextEndpoint]_vars

\* ================================================================ claims

Spawned == {p \in Procs : child[p] # "none"}
Failed == {p \in Spawned : ~success(exitStatus[p])}
Last(S) == CHOOSE p \in S : \A q \in S : q <= p

\* The code the statuses of the processes call for: 0 when all succeeded,
\* else the code of the last-spawned failing process, 1 for a signal.
ExpectedCode == IF Failed = {} THEN 0 ELSE unwrap_or(exitStatus[Last(Failed)], 1)

\* C1: when the orchestrator returns a code, every process has completed
\* with an exit status; the code is 0 if and only if every process
\* succeeded, and otherwise it is the numeric code of a failing process, or
\* 1 for a failing process that has no numeric code.
C1_ExitCodeAggregation ==
    result.kind = "ok" =>
        /\ \A p \in 1..Len(commands) :
               child[p] = "exited" /\ rRes[p] = [kind |-> "ok", status |-> exitStatus[p]]
        /\ (result.code = 0 <=> \A p \in Spawned : success(exitStatus[p]))
        /\ (result.code # 0 =>
               \E p \in Failed : result.code = unwrap_or(exitStatus[p], 1))

\* C1 witness: two processes, the second killed by a signal, code 1.
C1_Witness ==
    /\ result = Ok(1)
    /\ Len(commands) = 2
    /\ exitStatus[1] = Some(0)
    /\ exitStatus[2] = None

\* C2: the code returned is a function of the command list and the exit
\* statuses alone: whatever the order in which the processes finished and
\* whenever (if ever) the interrupt came, it is ExpectedCode.
C2_DeterministicCode ==
    result.kind = "ok" => result.code = ExpectedCode

\* C2 witness: `true` and `false` together, the first spawned finishing
\* first, with an interrupt in between: code 1.
C2_Witness ==
    /\ result = Ok(1)
    /\ interrupted
    /\ finishOrder = <<1, 2>>
    /\ exitStatus[1] = Some(0)
    /\ exitStatus[2] = Some(1)

\* C3 (as claimed): once an interrupt was received, the orchestrator
\* produces its final result only when every spawned process has completed
\* on its own, and the result is the code that the statuses call for.
C3_InterruptWaitsForAll ==
    (interrupted /\ result.kind # "none") =>
        /\ \A p \in Spawned : child[p] = "exited" /\ rPc[p] = "done"
        /\ result = Ok(ExpectedCode)

\* C4 (as claimed): each sink stream is a concatenation of whole lines,
\* each from one process: a byte that is not a newline is followed, in the
\* sink, by a byte of the same process.
C4_WholeLinesOnly ==
    \A ch \in Chans : \A i \in 1..(Len(sink[ch]) - 1) :
        sink[ch][i][2] # NL => sink[ch][i + 1][1] = sink[ch][i][1]

FromProc(p, ch) ==
    LET own == SelectSeq(sink[ch], LAMBDA e : e[1] = p)
    IN [i \in 1..Len(own) |-> own[i][2]]

\* C5 (as claimed): when a Runner resolves with the exit status, every
\* byte its child wrote to a channel has been written, once and in order,
\* to that channel's sink.
C5_DrainedBeforeTermination ==
    \A p \in Procs : rRes[p].kind = "ok" =>
        \A ch \in Chans : FromProc(p, ch) = wrote[p][ch]

Handles == {stdins[i] : i \in 1..Len(stdins)}
ChunkStart == stdinPos - Len(bBuf)

\* C6: as long as no write failed, each process was written a prefix of
\* the bytes read from standard input, in order; a process started earlier
\* is never behind one started later; no process has bytes of the current
\* chunk before all have the whole chunk before it; when the Broadcaster
\* is back at its read (or ended), every spawned process has every byte.
C6_BroadcastInOrder ==
    (bPc # "none" /\ ~bWriteFailed) =>
        /\ Handles = Spawned
        /\ \A p \in Handles :
               /\ Len(delivered[p]) <= stdinPos
               /\ delivered[p] = StdinBytes(0, Len(delivered[p]))
        /\ \A i, j \in 1..Len(stdins) :
               i < j => Len(delivered[stdins[i]]) >= Len(delivered[stdins[j]])
        /\ \A p, q \in Handles :
               Len(delivered[p]) > ChunkStart => Len(delivered[q]) >= ChunkStart
        /\ bPc \in {"read", "ended"} =>
               \A p \in Handles : Len(delivered[p]) = stdinPos

\* C6 witness: two processes, two chunks read, each process has both.
C6_Witness ==
    /\ bPc = "read"
    /\ ~bWriteFailed
    /\ Len(stdins) = 2
    /\ stdinPos = 2
    /\ Len(bBuf) = 1
    /\ \A p \in Handles : delivered[p] = <<1, 2>>

\* C7: after a failed write nothing is written to any input handle any
\* more and the Broadcaster stays stopped; the failing step leaves the
\* orchestrator where it was, and the orchestrator still awaits every
\* process and returns the code their statuses call for.
C7_BroadcastStopsOnFailure ==
    /\ [][bWriteFailed => (delivered' = delivered /\ bPc = "failed" /\ bPc' = "failed")]_vars
    /\ [][(~bWriteFailed /\ bWriteFailed') =>
             (delivered' = delivered /\ UNCHANGED <<orchVars, rPc, rRes>>)]_vars
    /\ []((bWriteFailed /\ result.kind = "ok") =>
             /\ \A p \in Spawned : rPc[p] = "done"
             /\ result.code = ExpectedCode)

\* C7 witness: the broadcast has failed while a process that still accepts
\* input has not been written all that was read.
C7_Witness ==
    /\ bWriteFailed
    /\ bPc = "failed"
    /\ \E p \in Handles :
           child[p] = "running" /\ childIn[p] /\ Len(delivered[p]) < stdinPos

\* C8 (as claimed): when the bind of a directive's Listener failed, the
\* orchestrator's result is a failure.
C8_BindFailureIsFatal ==
    (pPc = "bind_failed" /\ result.kind # "none") => result.kind = "err"

C10_NothingAfterFirstEof ==
    [][\A c \in Conns, d \in Dirs :
          (cPc[c] = "relay" /\ dirSt[c][d] = "done") =>
              relayed'[c][Opp(d)] = relayed[c][Opp(d)]]_vars

\* C10 (amended): the relay of a connection runs until both sides have
\* reached end-of-stream or a direction errors.  End-of-stream of one side
\* ends that direction only: nothing more is relayed in it, and the relay
\* goes on in the opposite direction.  The streams are torn down together
\* when the relay returns: on the second end-of-stream, or on an error.
C10_RelayUntilBothEof ==
    /\ [](\A c \in Conns :
             /\ cPc[c] = "closed" =>
                    \A d \in Dirs : dirSt[c][d] = "done" /\ inflight[c][d] = 0
             /\ cPc[c] = "relay" => \E d \in Dirs : dirSt[c][d] = "running")
    /\ [][\A c \in Conns, d \in Dirs :
             dirSt[c][d] = "done" =>
                 (dirSt'[c][d] = "done" /\ relayed'[c][d] = relayed[c][d])]_vars
    /\ [][\A c \in Conns :
             (cPc[c] = "relay" /\ cPc'[c] # "relay") =>
                 \/ cPc'[c] = "panicked"
                 \/ cPc'[c] = "closed" /\ \A d \in Dirs : dirSt'[c][d] = "done"]_vars

\* C10 witness: a connection whose relay returned after a byte went each
\* way and both sides reached end-of-stream.
C10_Witness ==
    \E c \in Conns :
        /\ cPc[c] = "closed"
        /\ relayed[c].a2b = 1
        /\ relayed[c].b2a = 1

\* C11 (as claimed): a dial to a Unix-socket or named-pipe destination
\* ends with an error only for a non-transient host error, never because
\* the destination is not listening yet.
C11_DialToleratesNotListening ==
    [][\A c \in Conns :
          (destKind \in {"unix", "pipe"} /\ cPc[c] = "dial" /\ cPc'[c] = "panicked") =>
              dialErr'[c] = "other"]_vars

\* C12 (as claimed): an endpoint formatted and parsed again is the same
\* endpoint; a valid endpoint string parsed and formatted is a string that
\* parses to the same endpoint.
C12_EndpointRoundTrip ==
    epPc = "back" =>
        IF origin.dir = "show"
        THEN parsed = origin.ep
        ELSE from_str(platform, shown) = parsed

\* C13 (as claimed): for every raw command that was started, the spawn
\* returned its completion handle and its input handle without aborting,
\* and a final result is a code that counts its exit status.
C13_RawSpawnWorks ==
    \A p \in 1..Len(commands) :
        (commands[p] = "raw" /\ child[p] # "none") =>
            /\ result.kind # "panic"
            /\ rPc[p] # "none"
            /\ inHandle[p] # "none"
            /\ result.kind # "none" => (child[p] = "exited" /\ result = Ok(ExpectedCode))

\* C14 (as claimed): once the orchestrator has produced its final result,
\* whatever it is, the process can exit: it does not wait for the read of
\* standard input that is in flight.
C14_ExitWithoutWaiting ==
    orchPc = "returned" => ENABLED MainExit

\* C15 (as claimed): when the orchestrator ends with an error that is one
\* process's (a command that failed to spawn, or the awaited Runner ending
\* with an I/O error), every other spawned process has run to completion
\* and its Runner has been collected.
C15_ErrorsDoNotAbortSiblings ==
    [][(/\ result.kind = "none"
        /\ result'.kind = "err"
        /\ \/ orchPc = "spawn"
           \/ tasks # <<>> /\ rRes[tasks[Len(tasks)]].kind = "err")
       => \A p \in Spawned : child[p] = "exited" /\ rPc[p] = "done"]_vars

\* C16 (as claimed): the startup information is on standard error if and
\* only if the verbose flag was given.
C16_PrintedIffVerbose ==
    orchPc # "start" =>
        printed = IF verbose THEN print(proxies, commands) ELSE <<>>

\* The processes wait has examined so far, and those of them that failed.
Examined ==
    {p \in Spawned : rPc[p] # "none" /\ orchPc \notin {"start", "spawn"} /\ p > Len(tasks)}
FailedExamined == {p \in Examined : ~success(exitStatus[p])}

\* C17: the command list is the shell commands then the raw ones and the
\* tasks are held in spawn order; wait examines the last of them and
\* removes it, so the processes are examined last spawned first; a nonzero
\* code is never overwritten; at every point of the traversal the code is
\* that of the first failing process met, the last-spawned one that
\* failed among those examined, and that is the code reported.
C17_ReverseSpawnOrder ==
    /\ [](\A i, j \in 1..Len(commands) :
             (i < j /\ commands[i] = "raw") => commands[j] = "raw")
    /\ [](\A k \in 1..Len(tasks) : tasks[k] = k)
    /\ [][(tasks' # tasks /\ orchPc # "spawn") =>
              tasks' = SubSeq(tasks, 1, Len(tasks) - 1)]_vars
    /\ [][code # 0 => code' = code]_vars
    /\ [](code = IF FailedExamined = {} THEN 0
                  ELSE unwrap_or(exitStatus[Last(FailedExamined)], 1))
    /\ [](result.kind = "ok" => (Examined = Spawned /\ result.code = code))

\* C17 witness: two processes failed with different codes, the first
\* spawned finishing last; the code is the second's.
C17_Witness ==
    /\ result = Ok(2)
    /\ exitStatus[1] = Some(1)
    /\ exitStatus[2] = Some(2)
    /\ finishOrder = <<2, 1>>

\* C18: at most one Runner is writing to each sink stream; a Runner holds
\* at most one of the two locks; the holder of a lock is at its sink write
\* and nowhere else; and, the sink writes completing, a Runner waiting for
\* a lock gets it.
C18_SinkLockingNeverDeadlocks ==
    /\ [](\A ch \in Chans :
             Cardinality({p \in Procs : rPc[p] = "write" /\ rCh[p] = ch}) <= 1)
    /\ [](\A p \in Procs : Cardinality({ch \in Chans : lock[ch] = p}) <= 1)
    /\ [](\A ch \in Chans :
             lock[ch] # 0 => (rPc[lock[ch]] = "write" /\ rCh[lock[ch]] = ch))
    /\ \A p \in Procs : (rPc[p] = "lock") ~> (rPc[p] = "write")

\* C18 witness: one Runner holds a lock while another waits for the same.
C18_Witness ==
    \E p, q \in Procs :
        /\ p # q
        /\ rPc[p] = "write"
        /\ lock[rCh[p]] = p
        /\ rPc[q] = "lock"
        /\ rCh[q] = rCh[p]

\* C19: the orchestrator is parked only while a process remains to be
\* collected, and when the last-spawned Runner is done, wait can go on
\* whatever the Proxy Task and its connections are doing; once spawned, the
\* Proxy Task and its connections take steps only while the orchestrator
\* is parked;
\* with a directive and no command the result is Ok(0) at once, the Proxy
\* Task never having been polled: nothing bound, nothing accepted.
C19_ProxiesLiveAsLongAsCommands ==
    /\ [](orchPc \in {"select", "after_signal"} =>
             /\ tasks # <<>>
             /\ rPc[tasks[Len(tasks)]] = "done" => ENABLED OrchWait)
    /\ [][(pPc # "none" /\ orchPc \notin {"select", "after_signal"}) =>
              UNCHANGED <<pPc, nConns, cPc, dirSt, relayed>>]_vars
    /\ []((commands = <<>> /\ orchPc \notin {"start", "spawn"}) =>
             /\ result = Ok(0)
             /\ pPc = "bind"
             /\ nConns = 0)

\* C19 witness: a directive and no command: pxx has exited with code 0
\* and the Proxy Task never bound its Listener.
C19_Witness ==
    /\ commands = <<>>
    /\ proxies = 1
    /\ orchPc = "exited"
    /\ exitCode = Some(0)
    /\ pPc = "bind"

\* C20 (as claimed): every spawned process has an input handle; a handle
\* is closed only when the Broadcaster has stopped, at the end of standard
\* input or on a failed write, and then all are closed; so until then
\* every child still has its input open, and a child that waits for
\* end-of-input is still running.
C20_HandlesFollowBroadcaster ==
    /\ \A p \in Spawned : inHandle[p] # "none"
    /\ \A p \in Procs : inHandle[p] = "closed" => bPc \in {"ended", "failed"}
    /\ bPc \in {"ended", "failed"} => \A p \in Procs : inHandle[p] # "open"

====
